---------------------------- MODULE Spec2Model ----------------------------
(***************************************************************************)
(* HKDF as implemented by src/src/kdf.rs: construction from a message      *)
(* version, extract, and the expand loop with its version-dependent        *)
(* counter start.                                                          *)
(*                                                                         *)
(* Bytes of the caller's inputs are the integers 0..255.  HMAC-SHA256 is   *)
(* an injective function of (padded key, data): the digests computed so    *)
(* far are kept in the table "oracle", the k-th distinct input is given    *)
(* the symbolic digest bytes 256+32(k-1) .. 256+32(k-1)+31, which are      *)
(* distinct from every input byte and from every other digest.             *)
(*                                                                         *)
(* usize is UsizeBits wide.  Arithmetic that overflows panics when the     *)
(* crate is built with overflow checks (debug profile) and wraps when it   *)
(* is not (release profile); overflow_checks is the profile of the build.  *)
(***************************************************************************)
EXTENDS Integers, Sequences, FiniteSets, TLC

\* ------------------------------------------------------------------ bounds

\* Width of usize on the modelled target (Rust targets have 16, 32 or 64).
UsizeBits == 16
\* new() is tried on the versions 0..MaxVersion.
MaxVersion == 4
\* Ordinary output lengths go up to MaxBlocks hash blocks.
MaxBlocks == 2

\* --------------------------------------------------------------- constants

HASH_OUTPUT_SIZE == 32
\* Number of values of a u8 (iteration_start_offset, the counter byte).
U8_RANGE == 256
\* Block size of SHA-256: HMAC pads its key with zeros to this length.
HMAC_BLOCK_SIZE == 64

RECURSIVE Pow2(_)
Pow2(n) == IF n = 0 THEN 1 ELSE 2 * Pow2(n - 1)

UsizeRange == Pow2(UsizeBits)
UsizeMax == UsizeRange - 1
IsizeMax == Pow2(UsizeBits - 1) - 1

\* ----------------------------------------------------------------- inputs

Zeros(n) == [j \in 1..n |-> 0]

Versions == 0..MaxVersion
IKMs == {<<>>, <<11>>}
Salts == {<<>>, <<1>>, Zeros(HASH_OUTPUT_SIZE)}
Infos == {<<>>, <<240>>}
\* 0, and for each block count b the lengths just past b-1 blocks and of
\* exactly b blocks; and the lengths at which output_length + 32 and
\* output_length + 31 leave a usize.
Lengths ==
    {0} \cup {(b - 1) * HASH_OUTPUT_SIZE + 1 : b \in 1..MaxBlocks}
        \cup {b * HASH_OUTPUT_SIZE : b \in 1..MaxBlocks}
        \cup {UsizeMax - HASH_OUTPUT_SIZE + 1, UsizeMax}
\* Output lengths of two derivations that run at once.
ThreadLengths == {1, HASH_OUTPUT_SIZE + 1, MaxBlocks * HASH_OUTPUT_SIZE}
\* Lengths around the point where the counter byte i + offset leaves a u8.
LongLengths ==
    {(U8_RANGE - 1) * HASH_OUTPUT_SIZE - 1,
     (U8_RANGE - 1) * HASH_OUTPUT_SIZE, (U8_RANGE - 1) * HASH_OUTPUT_SIZE + 1,
     U8_RANGE * HASH_OUTPUT_SIZE, U8_RANGE * HASH_OUTPUT_SIZE + 1}

VARIABLES
    overflow_checks,      \* build profile: TRUE = overflow panics, FALSE = wraps
    last_new,             \* the last new(): its argument and what it returned
    pc,                   \* where the caller / the running derivation is
    op,                   \* the public function that was called
    self,                 \* the engine copy the running derivation works on
    input_key_material, salt, info, output_length,   \* its arguments
    prk,                  \* derive_salted_secrets: let prk
    iterations,           \* expand: let iterations
    i,                    \* expand: loop variable
    result,               \* expand: let mut result
    mac,                  \* expand: let mut mac
    counter,              \* expand: the byte of the last &[(i as u8) + offset]
    ret,                  \* the returned Box<[u8]>
    oracle,               \* HMAC inputs that have been given a digest
    reference,            \* an earlier derivation the caller kept
    other,                \* the frame of a derivation on another thread
    current               \* the thread whose derivation is the running one

args == <<op, self, input_key_material, salt, info, output_length>>
locals == <<prk, iterations, i, result, mac, counter>>
vars == <<overflow_checks, last_new, pc, args, locals,
          ret, oracle, reference, other, current>>

None == [tag |-> "None"]
Panic == -1

\* ------------------------------------------------------------- arithmetic

\* a + b in usize
UsizeAdd(a, b) ==
    IF a + b <= UsizeMax THEN a + b
    ELSE IF overflow_checks THEN Panic ELSE a + b - UsizeRange

\* a - b in usize
UsizeSub(a, b) ==
    IF a - b >= 0 THEN a - b
    ELSE IF overflow_checks THEN Panic ELSE a - b + UsizeRange

\* i as u8: a cast truncates in every build
AsU8(n) == n % U8_RANGE

\* a + b in u8
U8Add(a, b) ==
    IF a + b < U8_RANGE THEN a + b
    ELSE IF overflow_checks THEN Panic ELSE a + b - U8_RANGE


\* ------------------------------------------------------------ HMAC-SHA256

\* HMAC pads a key of at most one block with zeros to the block size.  (A
\* longer key is hashed first; no key of the model is longer than a block.)
KeyPad(key) == key \o Zeros(HMAC_BLOCK_SIZE - Len(key))

\* Hmac::<Sha256>::new_varkey(key)
NewVarkey(key) == [key |-> KeyPad(key), buf |-> <<>>]

\* mac.input(data)
MacInput(m, data) == [m EXCEPT !.buf = @ \o data]

\* The digest's name: the place of (key, data) in the table, a new place when
\* it is not there yet.
IdOf(tbl, m) ==
    IF \E k \in 1..Len(tbl) : tbl[k] = m
    THEN CHOOSE k \in 1..Len(tbl) : tbl[k] = m
    ELSE Len(tbl) + 1

\* The table after (key, data) was given a digest.
Learn(tbl, m) ==
    IF \E k \in 1..Len(tbl) : tbl[k] = m THEN tbl ELSE Append(tbl, m)

\* The 32 bytes of the digest with name id.
Code(id) ==
    [j \in 1..HASH_OUTPUT_SIZE |->
        U8_RANGE + (id - 1) * HASH_OUTPUT_SIZE + (j - 1)]

\* mac.result().code() and mac.result_reset().code()
MacCode(tbl, m) == Code(IdOf(tbl, m))

\* A finalisation that leaves what was absorbed in place.
MacKeep(m) == m

\* The state of mac after mac.result_reset(): same key, nothing absorbed.
MacReset(m) == [m EXCEPT !.buf = <<>>]

\* ------------------------------------------------------------------- HKDF

Ok(v) == [tag |-> "Ok", value |-> v]
Err(e) == [tag |-> "Err", error |-> e]
UnrecognizedMessageVersion(v) ==
    [kind |-> "UnrecognizedMessageVersion", version |-> v]
Engine(offset) == [iteration_start_offset |-> offset]

\* A constructor that also takes the next version for version 3.
HKDF_new_lenient(v) ==
    CASE v = 2 -> Ok(Engine(0))
      [] v \in {3, 4} -> Ok(Engine(1))
      [] OTHER -> Err(UnrecognizedMessageVersion(v))

\* A constructor with the two offsets exchanged.
HKDF_new_swapped(v) ==
    CASE v = 2 -> Ok(Engine(1))
      [] v = 3 -> Ok(Engine(0))
      [] OTHER -> Err(UnrecognizedMessageVersion(v))

\* HKDF::new
HKDF_new(v) ==
    CASE v = 2 -> Ok(Engine(0))
      [] v = 3 -> Ok(Engine(1))
      [] OTHER -> Err(UnrecognizedMessageVersion(v))

\* A default salt of 0x01 bytes.
OnesSalt == [j \in 1..HASH_OUTPUT_SIZE |-> 1]

\* derive_secrets: the salt it passes on, &[0u8; Self::HASH_OUTPUT_SIZE]
DefaultSalt == Zeros(HASH_OUTPUT_SIZE)

\* expand: (output_length + HASH_OUTPUT_SIZE - 1) / HASH_OUTPUT_SIZE
Iterations(len) ==
    LET s == UsizeAdd(len, HASH_OUTPUT_SIZE)
        d == IF s = Panic THEN Panic ELSE UsizeSub(s, 1)
    IN  IF d = Panic THEN Panic ELSE d \div HASH_OUTPUT_SIZE

\* Vec::with_capacity(n) panics with "capacity overflow" past isize::MAX bytes
CapacityOverflow(n) == n > IsizeMax

\* expand: what the loop feeds to mac before info: the last
\* HASH_OUTPUT_SIZE bytes of result once result holds that many
PreviousBlock(r) ==
    IF Len(r) >= HASH_OUTPUT_SIZE
    THEN SubSeq(r, Len(r) - HASH_OUTPUT_SIZE + 1, Len(r))
    ELSE <<>>

\* A counter that numbers the blocks from one.
CounterByteFromOne(n, offset) == U8Add(AsU8(n + 1), offset)

\* expand: (i as u8) + self.iteration_start_offset
CounterByte(n, offset) == U8Add(AsU8(n), offset)

\* result.truncate(len)
Truncate(r, len) == IF len < Len(r) THEN SubSeq(r, 1, len) ELSE r

\* ---------------------------------------------------------------- actions

\* let e = HKDF::new(v)
New(v) ==
    /\ pc = "idle"
    /\ last_new' = [message_version |-> v, returned |-> HKDF_new(v)]
    /\ UNCHANGED <<overflow_checks, pc, args, locals, ret, oracle, reference,
                   other, current>>

HasEngine == last_new # None /\ last_new.returned.tag = "Ok"

\* Entry of derive_salted_secrets on a copy of the engine.
Enter(f, e, ikm, s, inf, len) ==
    /\ pc = "idle"
    /\ op' = f
    /\ self' = e
    /\ input_key_material' = ikm
    /\ salt' = s
    /\ info' = inf
    /\ output_length' = len
    /\ pc' = "extract"
    /\ UNCHANGED <<overflow_checks, last_new, locals, ret, oracle, reference,
                   other, current>>

\* e.derive_secrets(ikm, inf, len)
DeriveSecrets(ikm, inf, len) ==
    /\ HasEngine
    /\ Enter("derive_secrets", last_new.returned.value, ikm, DefaultSalt,
             inf, len)

\* e.derive_salted_secrets(ikm, s, inf, len)
DeriveSaltedSecrets(ikm, s, inf, len) ==
    /\ HasEngine
    /\ Enter("derive_salted_secrets", last_new.returned.value, ikm, s,
             inf, len)

\* let prk = self.extract(salt, input_key_material)
Extract ==
    /\ pc = "extract"
    /\ LET m == MacInput(NewVarkey(salt), input_key_material)
       IN  /\ prk' = MacCode(oracle, m)
           /\ oracle' = Learn(oracle, m)
    /\ pc' = "expand"
    /\ UNCHANGED <<overflow_checks, last_new, args, iterations, i, result,
                   mac, counter, ret, reference,
                   other, current>>

\* expand, up to the loop: iterations, result, mac
ExpandBegin ==
    /\ pc = "expand"
    /\ LET n == Iterations(output_length)
       IN  IF n = Panic \/ CapacityOverflow(n * HASH_OUTPUT_SIZE)
           THEN /\ pc' = "panicked"
                /\ UNCHANGED <<iterations, i, result, mac>>
           ELSE /\ iterations' = n
                /\ result' = <<>>
                /\ mac' = NewVarkey(prk)
                /\ i' = 0
                /\ pc' = "loop"
    /\ UNCHANGED <<overflow_checks, last_new, args, prk, counter, ret,
                   oracle, reference,
                   other, current>>

\* One pass of the body of  for i in 0..iterations, which leaves the engine
\* copy it works on as e.
ExpandStep(e) ==
    /\ pc = "loop"
    /\ i < iterations
    /\ LET fed == MacInput(MacInput(mac, PreviousBlock(result)), info)
           c == CounterByte(i, self.iteration_start_offset)
       IN  IF c = Panic
           THEN /\ pc' = "panicked"
                /\ mac' = fed
                /\ UNCHANGED <<i, result, counter, oracle>>
           ELSE LET m == MacInput(fed, <<c>>)
                IN  /\ counter' = c
                    /\ result' = result \o MacCode(oracle, m)
                    /\ oracle' = Learn(oracle, m)
                    /\ mac' = MacReset(m)
                    /\ i' = i + 1
                    /\ pc' = "loop"
    /\ self' = e
    /\ UNCHANGED <<overflow_checks, last_new, op, input_key_material, salt,
                   info, output_length, prk, iterations, ret, reference,
                   other, current>>

\* A loop body that counts by advancing the engine's own offset.
ExpandIterationAdvancingOffset ==
    ExpandStep(Engine(AsU8(self.iteration_start_offset + 1)))

\* The loop body takes self by value and never assigns to it.
ExpandIteration == ExpandStep(self)

\* After the loop: result.truncate(output_length); result.into_boxed_slice()
ExpandFinish ==
    /\ pc = "loop"
    /\ i = iterations
    /\ ret' = Truncate(result, output_length)
    /\ pc' = "done"
    /\ UNCHANGED <<overflow_checks, last_new, args, locals, oracle, reference,
                   other, current>>

\* What the caller knows of the derivation that just returned.
Returned ==
    [self |-> self, op |-> op, input_key_material |-> input_key_material,
     salt |-> salt, info |-> info, output_length |-> output_length,
     out |-> ret, named |-> Len(oracle)]

\* The caller keeps the output that was just returned; every later
\* derivation is compared with it.
Retain ==
    /\ pc = "done"
    /\ reference = None
    /\ reference' = Returned
    /\ UNCHANGED <<overflow_checks, last_new, pc, args, locals, ret, oracle,
                   other, current>>

\* The caller drops the returned output; the frame of the derivation is gone.
\* Digest names that no kept value refers to are released (none is while a
\* derivation of another thread is under way).
Drop ==
    /\ pc = "done"
    /\ other = None
    /\ pc' = "idle"
    /\ op' = "none"
    /\ self' = None
    /\ input_key_material' = <<>>
    /\ salt' = <<>>
    /\ info' = <<>>
    /\ output_length' = 0
    /\ prk' = <<>>
    /\ iterations' = 0
    /\ i' = 0
    /\ result' = <<>>
    /\ mac' = None
    /\ counter' = 0
    /\ ret' = <<>>
    /\ oracle' = IF reference = None THEN <<>>
                 ELSE SubSeq(oracle, 1, reference.named)
    /\ UNCHANGED <<overflow_checks, last_new, reference,
                   other, current>>

\* The frame of the running derivation: its position, self and arguments,
\* its let bindings and what it returned.
Frame ==
    [pc |-> pc, op |-> op, self |-> self,
     input_key_material |-> input_key_material, salt |-> salt, info |-> info,
     output_length |-> output_length, prk |-> prk, iterations |-> iterations,
     i |-> i, result |-> result, mac |-> mac, counter |-> counter,
     ret |-> ret]

\* The scheduler runs the other thread: its derivation becomes the running
\* one, the running one waits.
Switch ==
    /\ other # None
    /\ other' = Frame
    /\ current' = 3 - current
    /\ pc' = other.pc
    /\ op' = other.op
    /\ self' = other.self
    /\ input_key_material' = other.input_key_material
    /\ salt' = other.salt
    /\ info' = other.info
    /\ output_length' = other.output_length
    /\ prk' = other.prk
    /\ iterations' = other.iterations
    /\ i' = other.i
    /\ result' = other.result
    /\ mac' = other.mac
    /\ counter' = other.counter
    /\ ret' = other.ret
    /\ UNCHANGED <<overflow_checks, last_new, oracle, reference>>

\* --------------------------------------------------------- specifications

Init ==
    /\ overflow_checks \in BOOLEAN
    /\ last_new = None
    /\ pc = "idle"
    /\ op = "none"
    /\ self = None
    /\ input_key_material = <<>>
    /\ salt = <<>>
    /\ info = <<>>
    /\ output_length = 0
    /\ prk = <<>>
    /\ iterations = 0
    /\ i = 0
    /\ result = <<>>
    /\ mac = None
    /\ counter = 0
    /\ ret = <<>>
    /\ oracle = <<>>
    /\ reference = None
    /\ other = None
    /\ current = 1

Next ==
    \/ \E v \in Versions : New(v)
    \/ \E ikm \in IKMs, inf \in Infos, len \in Lengths :
          DeriveSecrets(ikm, inf, len)
    \/ \E ikm \in IKMs, s \in Salts, inf \in Infos, len \in Lengths :
          DeriveSaltedSecrets(ikm, s, inf, len)
    \/ Extract
    \/ ExpandBegin
    \/ ExpandIteration
    \/ ExpandFinish
    \/ Retain
    \/ Drop

\* Any number of constructions and derivations of ordinary length.
Spec == Init /\ [][Next]_vars

\* One derivation of a length from LongLengths, entered on an engine of
\* version 2 or 3.
InitLong ==
    /\ overflow_checks \in BOOLEAN
    /\ \E v \in {2, 3} :
          /\ last_new = [message_version |-> v, returned |-> HKDF_new(v)]
          /\ self = HKDF_new(v).value
    /\ pc = "extract"
    /\ \/ op = "derive_secrets" /\ salt = DefaultSalt
       \/ op = "derive_salted_secrets" /\ salt = <<1>>
    /\ input_key_material = <<11>>
    /\ info \in Infos
    /\ output_length \in LongLengths
    /\ prk = <<>>
    /\ iterations = 0
    /\ i = 0
    /\ result = <<>>
    /\ mac = None
    /\ counter = 0
    /\ ret = <<>>
    /\ oracle = <<>>
    /\ reference = None
    /\ other = None
    /\ current = 1

\* Two threads have each entered derive_salted_secrets on a copy of the same
\* engine; the derivation of thread 2 waits.
InitTwo ==
    /\ overflow_checks \in BOOLEAN
    /\ \E v \in {2, 3} :
          /\ last_new = [message_version |-> v, returned |-> HKDF_new(v)]
          /\ self = HKDF_new(v).value
    /\ pc = "extract"
    /\ op = "derive_salted_secrets"
    /\ input_key_material = <<11>>
    /\ salt = <<1>>
    /\ info \in Infos
    /\ output_length \in ThreadLengths
    /\ prk = <<>>
    /\ iterations = 0
    /\ i = 0
    /\ result = <<>>
    /\ mac = None
    /\ counter = 0
    /\ ret = <<>>
    /\ oracle = <<>>
    /\ reference = None
    /\ \E inf \in Infos, len \in ThreadLengths :
          other = [pc |-> "extract", op |-> "derive_salted_secrets",
                   self |-> self, input_key_material |-> <<11>>,
                   salt |-> <<1>>, info |-> inf, output_length |-> len,
                   prk |-> <<>>, iterations |-> 0, i |-> 0, result |-> <<>>,
                   mac |-> None, counter |-> 0, ret |-> <<>>]
    /\ current = 1

NextShared ==
    \/ Next
    \/ Switch

\* An engine shared by derivations: any number of them one after another, or
\* two of them at once on two threads.
SpecShared == (Init \/ InitTwo) /\ [][NextShared]_vars

NextLong ==
    \/ Extract
    \/ ExpandBegin
    \/ ExpandIteration
    \/ ExpandFinish

SpecLong == InitLong /\ [][NextLong]_vars

\* ----------------------------------------------------------------- claims

\* ceil(len / HASH_OUTPUT_SIZE), in the integers
Blocks(len) == (len + HASH_OUTPUT_SIZE - 1) \div HASH_OUTPUT_SIZE

\* Every counter i + offset of the len bytes' blocks is a u8.
Fits(offset, len) == Blocks(len) + offset <= U8_RANGE

\* p is the first n elements of s
IsPrefix(p, s, n) ==
    /\ Len(p) = n
    /\ Len(s) >= n
    /\ \A j \in 1..n : p[j] = s[j]

\* HMAC(key, data) as the table names it
Hmac(key, data) == Code(IdOf(oracle, [key |-> KeyPad(key), buf |-> data]))

\* PRK = HMAC(key = salt, data = input_key_material)
SpecPrk == Hmac(salt, input_key_material)

\* T_k = HMAC(PRK, prev || info || byte(k + offset)), prev empty for k = 0
SpecBlock(k, prev) ==
    Hmac(SpecPrk, prev \o info \o <<k + self.iteration_start_offset>>)

\* The k-th block (from 0) of result
ResultBlock(k) ==
    SubSeq(result, k * HASH_OUTPUT_SIZE + 1, (k + 1) * HASH_OUTPUT_SIZE)

\* What ret holds of the k-th block (from 0): all of it, or its first bytes
\* when the truncation cut it
RetBlock(k) ==
    SubSeq(ret, k * HASH_OUTPUT_SIZE + 1,
           IF (k + 1) * HASH_OUTPUT_SIZE <= Len(ret)
           THEN (k + 1) * HASH_OUTPUT_SIZE ELSE Len(ret))

\* ret is the first len bytes of T_0 || ... || T_(n-1), n = ceil(len / 32):
\* it has len bytes, and what it holds of each block k is the beginning of
\* T_k, the keyed hash of the block before it, info and byte(k + offset).
IsOkm(len) ==
    /\ Len(ret) = len
    /\ \A k \in 0..(Blocks(len) - 1) :
          IsPrefix(RetBlock(k),
                   SpecBlock(k, IF k > 0 THEN RetBlock(k - 1) ELSE <<>>),
                   Len(RetBlock(k)))

Derived == pc = "done"

\* C1 as stated: for every engine, input and output_length the derivation
\* returns the first output_length bytes of T_0 || ... || T_(n-1),
\* n = ceil(output_length / 32), T_k = HMAC(PRK, T_(k-1) || info ||
\* byte(k + offset)) with T_(-1) empty, PRK = HMAC(salt, input_key_material).
C1_Claim ==
    /\ pc # "panicked"
    /\ Derived => IsOkm(output_length)

\* C1 amended: the same, for the output lengths whose counters all fit in a
\* byte (ceil(output_length / 32) + offset <= 256).  While the loop runs,
\* the block it appended last is the keyed hash, under PRK, of exactly the
\* block before it (nothing for block 0), info and the counter byte.
C1_Theorem ==
    (pc \in {"expand", "loop", "done", "panicked"}
        /\ Fits(self.iteration_start_offset, output_length)) =>
    /\ pc # "panicked"
    /\ prk = SpecPrk
    /\ pc \in {"loop", "done"} =>
          /\ Len(result) = i * HASH_OUTPUT_SIZE
          /\ i > 0 =>
                ResultBlock(i - 1) =
                    SpecBlock(i - 1,
                              IF i > 1 THEN ResultBlock(i - 2) ELSE <<>>)
    /\ Derived => IsOkm(output_length)

\* C1 happens: a derivation returned whose last counter byte is 255 and
\* whose last block was cut by the truncation.
C1_Witness ==
    /\ Derived
    /\ Blocks(output_length) + self.iteration_start_offset = U8_RANGE
    /\ Len(ret) < Len(result)

\* C4 as stated: the counter byte fed for block k is the integer k + offset,
\* never a wrapped or truncated value (a derivation that would need a
\* counter past 255 stops instead of hashing with one).
C4_Claim ==
    (pc \in {"loop", "done"} /\ i > 0) =>
        counter = (i - 1) + self.iteration_start_offset

SameMaterial ==
    /\ Derived
    /\ reference # None
    /\ reference.input_key_material = input_key_material
    /\ reference.info = info

\* C2: new(v) fails with UnrecognizedMessageVersion(v), carrying v and no
\* engine, for every v other than 2 and 3, and succeeds exactly for 2 and 3.
C2_Theorem ==
    last_new # None =>
        LET v == last_new.message_version
            r == last_new.returned
        IN  /\ r.tag = "Ok" <=> v \in {2, 3}
            /\ v \notin {2, 3} =>
                  r = [tag |-> "Err",
                       error |-> [kind |-> "UnrecognizedMessageVersion",
                                  version |-> v]]

\* C2 happens: new was called with a version above the supported ones and
\* returned an error.
C2_Witness ==
    /\ last_new # None
    /\ last_new.message_version = 4
    /\ last_new.returned.tag = "Err"

\* Every engine there is: the one new() returned, the copy a derivation
\* works on, the one of the kept derivation.
EngineOffsets ==
    {last_new.returned.value.iteration_start_offset : x \in
        {y \in {1} : last_new # None /\ last_new.returned.tag = "Ok"}}
    \cup {self.iteration_start_offset : x \in {y \in {1} : self # None}}
    \cup {reference.self.iteration_start_offset : x \in
        {y \in {1} : reference # None}}

\* C3: new(2) yields offset 0, new(3) yields offset 1, and no engine has any
\* other offset.
C3_Theorem ==
    /\ last_new # None =>
          /\ last_new.message_version = 2 =>
                last_new.returned = [tag |-> "Ok",
                                     value |-> [iteration_start_offset |-> 0]]
          /\ last_new.message_version = 3 =>
                last_new.returned = [tag |-> "Ok",
                                     value |-> [iteration_start_offset |-> 1]]
    /\ EngineOffsets \subseteq {0, 1}

\* C3 happens: a derivation on the engine of new(3) returned while a
\* derivation on the engine of new(2) is kept.
C3_Witness ==
    /\ Derived
    /\ last_new.message_version = 3
    /\ self.iteration_start_offset = 1
    /\ reference # None
    /\ reference.self.iteration_start_offset = 0

\* C6 as stated: the result has exactly output_length bytes and the loop ran
\* ceil(output_length / 32) times, for every output_length.
C6_Claim ==
    Derived =>
        /\ Len(ret) = output_length
        /\ iterations = Blocks(output_length)

\* C7 as stated: of two derivations that differ only in output_length, the
\* shorter output is the first bytes of the longer one.
C7_Claim ==
    (SameMaterial /\ reference.self = self /\ reference.salt = salt) =>
        /\ reference.output_length < output_length =>
              IsPrefix(reference.out, ret, reference.output_length)
        /\ output_length < reference.output_length =>
              IsPrefix(ret, reference.out, output_length)

\* C8 as stated: two derivations of the same output_length > 0 that differ
\* only in the version of their engines return different outputs.
C8_Claim ==
    (SameMaterial /\ reference.salt = salt
        /\ reference.output_length = output_length /\ output_length > 0
        /\ reference.self # self) =>
        ret # reference.out

\* C9: derive_secrets(ikm, info, n) and derive_salted_secrets(ikm, salt, info,
\* n) with salt = 32 zero bytes return the same output on the same engine.
C9_Theorem ==
    (SameMaterial /\ reference.self = self
        /\ reference.output_length = output_length) =>
        /\ (reference.op = "derive_secrets" /\ op = "derive_salted_secrets"
               /\ salt = Zeros(32)) => ret = reference.out
        /\ (op = "derive_secrets" /\ reference.op = "derive_salted_secrets"
               /\ reference.salt = Zeros(32)) => ret = reference.out

\* C9 happens: derive_salted_secrets with 32 zero bytes of salt returned
\* more than one block while the output of derive_secrets for the same
\* engine, key material, info and length is kept.
C9_Witness ==
    /\ SameMaterial
    /\ reference.self = self
    /\ reference.output_length = output_length
    /\ output_length > HASH_OUTPUT_SIZE
    /\ Len(ret) = output_length
    /\ input_key_material # <<>>
    /\ reference.op = "derive_secrets"
    /\ op = "derive_salted_secrets"
    /\ salt = Zeros(32)

\* The derivation that just returned repeats the kept one.
Repeated ==
    /\ SameMaterial
    /\ reference.self = self
    /\ reference.op = op
    /\ reference.salt = salt
    /\ reference.output_length = output_length

\* The running derivation and the waiting one have the same engine and
\* arguments.
SameAsOther ==
    /\ other # None
    /\ other.self = self
    /\ other.op = op
    /\ other.input_key_material = input_key_material
    /\ other.salt = salt
    /\ other.info = info
    /\ other.output_length = output_length

\* C10, the outputs: a repeated derivation returns the kept output; two
\* derivations with the same arguments that run at once agree on every
\* block both have computed and on what they return.
C10_Deterministic ==
    /\ Repeated => ret = reference.out
    /\ (SameAsOther /\ pc \in {"loop", "done"}
           /\ other.pc \in {"loop", "done"}) =>
          LET n == IF i < other.i THEN i ELSE other.i
          IN  /\ SubSeq(result, 1, n * HASH_OUTPUT_SIZE) =
                    SubSeq(other.result, 1, n * HASH_OUTPUT_SIZE)
              /\ (pc = "done" /\ other.pc = "done") => ret = other.ret

\* C10, the engine: a derivation starts on a copy of the engine new()
\* returned; no step of it changes the copy, the caller's engine or the
\* frame of the other thread; a switch of threads changes no frame.
C10_Frame ==
    /\ (pc = "idle" /\ pc' = "extract") => self' = last_new.returned.value
    /\ pc # "idle" => last_new' = last_new
    /\ current' = current =>
          /\ other' = other
          /\ (pc # "idle" /\ pc' # "idle") => self' = self
    /\ current' # current => (other' = Frame /\ Frame' = other)

\* C10: the engine's offset is fixed at construction and unchanged by every
\* derivation, and a derivation repeated after any other derivations, or
\* run at once with an equal one on a copy of the engine, returns the same
\* bytes.
C10_Theorem == [](C10_Deterministic) /\ [][C10_Frame]_vars

\* C10 happens: of two equal derivations of more than one block on copies
\* of one engine, one returned while the other waits inside its loop.
C10_Witness ==
    /\ SameAsOther
    /\ Derived
    /\ output_length > HASH_OUTPUT_SIZE
    /\ Len(ret) = output_length
    /\ other.pc = "loop"
    /\ other.i = 1

=============================================================================
